---------------------------- MODULE Spec2Model ----------------------------
(***************************************************************************)
(* A model of the viewport-driven level-of-detail data engine of           *)
(* canvas-graph: src/src/core/Viewport.js (the visible range and its       *)
(* navigation math), src/src/core/MockServer.js (series generation and     *)
(* range queries) and the page controller of src/vite.config.js (the       *)
(* requests it issues and the results it shows).                           *)
(*                                                                         *)
(* Numbers.  JavaScript numbers are IEEE doubles.  The Viewport part works *)
(* on exact rationals <<n, d>> (d > 0, lowest terms); for the inputs that  *)
(* are enumerated below (factors 1/2 and 2, pivots 0, 1/2 and 1, integer   *)
(* deltas) every intermediate value is a dyadic rational of small          *)
(* magnitude, on which double arithmetic is exact, so the rational model   *)
(* and the doubles agree.                                                  *)
(***************************************************************************)
EXTENDS Integers, Sequences, FiniteSets, TLC

VARIABLES
    viewport,   \* the Viewport object
    vpLast,     \* the last Viewport method called, its arguments, the range before
    vpCalls,    \* the observer calls that method made, in order
    server,     \* the MockServer object
    genLog,     \* the generateData calls since the last resize and what each left
    timers,     \* the getData requests whose setTimeout has not fired yet
    reply,      \* what the last fired request did to its promise
    earlier,    \* the answer before that one on the same store, where a run keeps it
    search,     \* one call of _binarySearch: its arguments and what it returned
    controller  \* the page controller: the requests it issued and what it shows

vpVars == <<viewport, vpLast, vpCalls>>
srvVars == <<server, genLog, timers, reply, earlier>>
appVars == <<search, controller>>
vars == <<viewport, vpLast, vpCalls, server, genLog, timers, reply, earlier, search,
          controller>>

(***************************************************************************)
(* Exact rational arithmetic.                                              *)
(***************************************************************************)
Abs(x) == IF x < 0 THEN -x ELSE x

RECURSIVE Gcd(_, _)
Gcd(a, b) == IF b = 0 THEN a ELSE Gcd(b, a % b)

Norm(n, d) ==
    LET g == Gcd(Abs(n), Abs(d))
        s == IF d < 0 THEN -1 ELSE 1
    IN  <<(s * n) \div g, (s * d) \div g>>

Q(n) == <<n, 1>>
QAdd(x, y) == Norm(x[1] * y[2] + y[1] * x[2], x[2] * y[2])
QSub(x, y) == Norm(x[1] * y[2] - y[1] * x[2], x[2] * y[2])
QMul(x, y) == Norm(x[1] * y[1], x[2] * y[2])
QLt(x, y) == x[1] * y[2] < y[1] * x[2]
QLe(x, y) == x[1] * y[2] <= y[1] * x[2]
QMax(x, y) == IF QLt(x, y) THEN y ELSE x
QMin(x, y) == IF QLt(y, x) THEN y ELSE x

(***************************************************************************)
(* Bounds and enumerated inputs of the Viewport part.                      *)
(***************************************************************************)
Grid == 5            \* every enumerated length is a multiple of Grid
MaxDen == 2          \* ranges are explored down to halves
MaxListeners == 2

Totals == {Grid, 4 * Grid, 8 * Grid}
Factors == {<<1, 2>>, <<2, 1>>}
Pivots == {<<0, 1>>, <<1, 2>>, <<1, 1>>}
Deltas == {-3 * Grid, Grid, 10 * Grid}
SetStarts == {-10 * Grid, 0, 2 * Grid, 10 * Grid}
SetEnds == {Grid, 2 * Grid, 4 * Grid, 8 * Grid, 1000 * Grid}
Callbacks == <<"render", "log", "stats">>

(***************************************************************************)
(* Viewport.js                                                             *)
(***************************************************************************)
MinRange == 10

\* constructor(totalPoints): lines 2-12
NewViewport(totalPoints) ==
    [totalPoints |-> Q(totalPoints), min |-> Q(0), max |-> Q(totalPoints),
     start |-> Q(0), end |-> Q(totalPoints), listeners |-> <<>>]

\* notify() walking the listeners from the last registered to the first
NotifyReversed(v) ==
    [i \in 1..Len(v.listeners) |->
        <<v.listeners[Len(v.listeners) + 1 - i], v.start, v.end>>]

\* notify(): every listener, in order, is called with (start, end)
Notify(v) == [i \in 1..Len(v.listeners) |-> <<v.listeners[i], v.start, v.end>>]

\* getRange()
GetRange(v) == [start |-> v.start, end |-> v.end, range |-> QSub(v.end, v.start)]

\* zoom, lines 16-21: the two early returns
ZoomRejectedNoFloor(v, factor) ==
    LET newRange == QMul(QSub(v.end, v.start), factor)
    IN  QLt(v.totalPoints, newRange)

ZoomRejected(v, factor) ==
    LET newRange == QMul(QSub(v.end, v.start), factor)
    IN  QLt(newRange, Q(MinRange)) \/ QLt(v.totalPoints, newRange)

\* zoom, lines 23-33, keeping the left edge in place whatever the pivot
ZoomRangeFromStart(v, factor, pivot) ==
    LET newRange == QMul(QSub(v.end, v.start), factor)
        start1 == QMax(Q(0), v.start)
        end1 == QMin(v.totalPoints, QAdd(start1, newRange))
    IN  [start |-> start1, end |-> end1]

\* zoom, lines 23-33, without the clamps to the domain
ZoomRangeUnclamped(v, factor, pivot) ==
    LET currentRange == QSub(v.end, v.start)
        newRange == QMul(currentRange, factor)
        pivotPoint == QAdd(v.start, QMul(currentRange, pivot))
        start1 == QSub(pivotPoint, QMul(newRange, pivot))
    IN  [start |-> start1, end |-> QAdd(start1, newRange)]

\* zoom, lines 23-33: the recomputed range of an accepted zoom
ZoomRange(v, factor, pivot) ==
    LET currentRange == QSub(v.end, v.start)
        newRange == QMul(currentRange, factor)
        pivotPoint == QAdd(v.start, QMul(currentRange, pivot))
        start1 == QMax(Q(0), QSub(pivotPoint, QMul(newRange, pivot)))
        end1 == QMin(v.totalPoints, QAdd(start1, newRange))
        start2 == IF QLt(start1, Q(0)) THEN Q(0) ELSE start1
    IN  IF QLt(v.totalPoints, end1)
        THEN [start |-> QMax(Q(0), QSub(v.totalPoints, newRange)),
              end |-> v.totalPoints]
        ELSE [start |-> start2, end |-> end1]

\* pan, lines 39-50, with its right-edge clamp forgetting to move the start
PanRangeKeepStart(v, deltaPoints) ==
    LET currentRange == QSub(v.end, v.start)
        newStart0 == QAdd(v.start, deltaPoints)
        newEnd0 == QAdd(v.end, deltaPoints)
        left == QLt(newStart0, Q(0))
        newStart1 == IF left THEN Q(0) ELSE newStart0
        newEnd1 == IF left THEN currentRange ELSE newEnd0
    IN  IF QLt(v.totalPoints, newEnd1)
        THEN [start |-> newStart1, end |-> v.totalPoints]
        ELSE [start |-> newStart1, end |-> newEnd1]

\* pan, lines 39-50
PanRange(v, deltaPoints) ==
    LET currentRange == QSub(v.end, v.start)
        newStart0 == QAdd(v.start, deltaPoints)
        newEnd0 == QAdd(v.end, deltaPoints)
        left == QLt(newStart0, Q(0))
        newStart1 == IF left THEN Q(0) ELSE newStart0
        newEnd1 == IF left THEN currentRange ELSE newEnd0
    IN  IF QLt(v.totalPoints, newEnd1)
        THEN [start |-> QSub(v.totalPoints, currentRange), end |-> v.totalPoints]
        ELSE [start |-> newStart1, end |-> newEnd1]

\* setRange, lines 75-76
SetRangeRange(v, start, end) ==
    [start |-> QMax(Q(0), start), end |-> QMin(v.totalPoints, end)]

\* the bound on the resolution of the explored ranges
Representable(r) == r.start[2] <= MaxDen /\ r.end[2] <= MaxDen

Pre(v) == [start |-> v.start, end |-> v.end, totalPoints |-> v.totalPoints]

(***************************************************************************)
(* MockServer.js: the series store and its generation.                     *)
(*                                                                         *)
(* seedrandom('benchmark-seed') is a deterministic stream of numbers in    *)
(* [0, 1).  It is modelled by a full-period linear congruential generator  *)
(* over RngMod values: the state is the last numerator drawn and one draw  *)
(* returns r / RngMod.  Samples (Float32) are integers in units of         *)
(* 1 / ValueScale and timestamps (Float64) integers in units of            *)
(* 1 / TimeScale ms, with 4 * ValueScale = 4 * TimeScale = 2 * RngMod,     *)
(* which holds the random-walk and the timestamps exactly; Math.sin is     *)
(* replaced by a piecewise-linear wave of the same period, so the sine     *)
(* profiles are deterministic functions of the same indices and draws as   *)
(* in the code, with approximated (floored) values.                        *)
(***************************************************************************)
RngMod == 256
RngA == 141
RngC == 3
RngSeed == 42
ValueScale == 128
TimeScale == 128
Latency == 100

\* one call of this.rng(): the new state, which is also the numerator drawn
Draw(rng) == (RngA * rng + RngC) % RngMod

\* (rng() - 0.5) * 4 * ValueScale, for the numerator r drawn
Half(r) == 2 * r - RngMod

\* 1000 * Math.sin(x / 1000), piecewise linear, for x >= 0
Sin1000(x) ==
    LET m == x % 6283
    IN  IF m < 1571 THEN (m * 1000) \div 1571
        ELSE IF m < 4712 THEN ((3142 - m) * 1000) \div 1571
        ELSE ((m - 6283) * 1000) \div 1571

\* TLC evaluates operator arguments lazily; Eager(x, e) evaluates x before e, so
\* that the loops below do not pile up unevaluated loop states
Eager(x, e) == IF x = x THEN e ELSE e

\* new Float32Array(n)
Zeros(n) == [j \in 1..n |-> 0]

Profiles == {"random-walk", "variable-sine", "pulse-wave", "multi-wave", "sparse-sine"}

\* constructor, lines 4-12
NewServer(nSeries, nPoints) ==
    [nSeries |-> nSeries, nPoints |-> nPoints, totalPoints |-> nSeries * nPoints,
     data |-> <<>>, dataX |-> <<>>, rng |-> RngSeed, latency |-> Latency]

\* resize, lines 18-22
ResizeServer(srv, nSeries, nPoints) ==
    [srv EXCEPT !.nSeries = nSeries, !.nPoints = nPoints,
                !.totalPoints = nSeries * nPoints]

\* 'random-walk', lines 34-42.  st = [rng, data]
RECURSIVE WalkPoints(_, _, _, _)
WalkPoints(nPoints, y, rng, series) ==
    IF Len(series) >= nPoints THEN [rng |-> rng, series |-> series]
    ELSE LET r == Draw(rng)
             y2 == y + (Half(r) * 2) \div 4
         IN  WalkPoints(nPoints, y2, r, Append(series, y2))

RECURSIVE WalkSeries(_, _, _, _)
WalkSeries(i, nSeries, nPoints, st) ==
    Eager(st,
        IF i >= nSeries THEN st
        ELSE LET w == WalkPoints(nPoints, 0, st.rng, <<>>)
             IN  WalkSeries(i + 1, nSeries, nPoints,
                            [rng |-> w.rng, data |-> Append(st.data, w.series)]))

\* 'variable-sine', lines 76-83: the points of one segment.  st = [rng, series]
RECURSIVE SinePoints(_, _, _, _, _, _, _)
SinePoints(j, segmentSize, offset, nPoints, freq, amp, st) ==
    Eager(st,
        IF j >= segmentSize \/ offset + j >= nPoints THEN st
        ELSE LET r == Draw(st.rng)
                 val == (Sin1000(j * freq) * amp * ValueScale) \div 1000
                 noise == (Half(r) * amp) \div 40
             IN  SinePoints(j + 1, segmentSize, offset, nPoints, freq, amp,
                            [rng |-> r,
                             series |-> [st.series EXCEPT ![offset + j + 1] = val + noise]]))

\* 'variable-sine', lines 51-84: the segments; freq is in 1/1000
RECURSIVE SineSegments(_, _, _, _)
SineSegments(s, segmentSize, nPoints, st) ==
    Eager(st,
        IF s >= 10 THEN st
        ELSE LET r1 == Draw(st.rng)
                 r2 == Draw(r1)
                 fixed == s \in {1, 5, 8}
                 freq == IF s = 1 THEN 1500 ELSE IF s = 5 THEN 1 ELSE IF s = 8 THEN 100
                         ELSE 10 + (r1 * 100) \div RngMod
                 amp == IF s = 1 THEN 1000 ELSE IF s = 5 THEN 5 ELSE IF s = 8 THEN 2000
                        ELSE 50 + (r2 * 200) \div RngMod
                 rng == IF fixed THEN st.rng ELSE r2
             IN  SineSegments(s + 1, segmentSize, nPoints,
                              SinePoints(0, segmentSize, s * segmentSize, nPoints, freq, amp,
                                         [rng |-> rng, series |-> st.series])))

\* 'pulse-wave', lines 98-117: the points of one region
RECURSIVE PulsePoints(_, _, _, _, _, _)
PulsePoints(j, regionSize, r, offset, nPoints, st) ==
    Eager(st,
        IF j >= regionSize \/ offset + j >= nPoints THEN st
        ELSE LET d == Draw(st.rng)
                 pulse == IF Sin1000((j * 8 * 6283) \div regionSize) > 700 THEN 1500 ELSE -200
                 volatile == pulse * ValueScale + (Half(d) * 400) \div 4
                 baseValue == 20 * r - 200
                 smoothWave == (Sin1000((j * 3142) \div regionSize) * 30 * ValueScale) \div 1000
                 tinyNoise == (Half(d) * 5) \div 4
                 calm == baseValue * ValueScale + smoothWave + tinyNoise
                 v == IF r % 3 = 0 THEN volatile ELSE calm
             IN  PulsePoints(j + 1, regionSize, r, offset, nPoints,
                             [rng |-> d, series |-> [st.series EXCEPT ![offset + j + 1] = v]]))

\* 'pulse-wave', lines 94-118: the regions
RECURSIVE PulseRegions(_, _, _, _)
PulseRegions(r, regionSize, nPoints, st) ==
    Eager(st,
        IF r >= 20 THEN st
        ELSE PulseRegions(r + 1, regionSize, nPoints,
                          PulsePoints(0, regionSize, r, r * regionSize, nPoints, st)))

\* 'multi-wave', lines 132-147: the points of series i of nSeries
RECURSIVE WavePoints(_, _, _, _, _)
WavePoints(j, i, nSeries, nPoints, st) ==
    Eager(st,
        IF j >= nPoints THEN st
        ELSE LET baseFreq == 1 + (i * 50) \div nSeries
                 baseAmp == 50 + (i * 1500) \div nSeries
                 wave == (Sin1000(j * baseFreq) * baseAmp * ValueScale) \div 1000
                 r1 == Draw(st.rng)
                 noise == (Half(r1) * i * baseAmp * 3) \div (nSeries * 10 * 4)
                 tested == 2 * i > nSeries
                 r2 == Draw(r1)
                 spiked == tested /\ r2 * 100 > 98 * RngMod
                 r3 == Draw(r2)
                 spike == IF spiked THEN (Half(r3) * baseAmp * 2) \div 4 ELSE 0
                 rng == IF spiked THEN r3 ELSE IF tested THEN r2 ELSE r1
             IN  WavePoints(j + 1, i, nSeries, nPoints,
                            [rng |-> rng, series |-> Append(st.series, wave + noise + spike)]))

RECURSIVE WaveSeries(_, _, _, _)
WaveSeries(i, nSeries, nPoints, st) ==
    Eager(st,
        IF i >= nSeries THEN st
        ELSE LET w == WavePoints(0, i, nSeries, nPoints, [rng |-> st.rng, series |-> <<>>])
             IN  WaveSeries(i + 1, nSeries, nPoints,
                            [rng |-> w.rng, data |-> Append(st.data, w.series)]))

\* 'sparse-sine', lines 159-177.  st = [rng, y, x]
RECURSIVE SparsePoints(_, _, _, _)
SparsePoints(j, nPoints, currentTime, st) ==
    Eager(st,
        IF j >= nPoints THEN st
        ELSE LET r1 == Draw(st.rng)
                 dt == 10 * TimeScale + (Half(r1) * 2) \div 4
                 r2 == Draw(r1)
                 gapped == r2 * 1000 > 995 * RngMod
                 r3 == Draw(r2)
                 gap == 1000 * TimeScale + (r3 * 4000 * TimeScale) \div RngMod
                 t == IF gapped THEN currentTime + dt + gap ELSE currentTime + dt
                 r4 == Draw(IF gapped THEN r3 ELSE r2)
                 val == (Sin1000(t \div TimeScale) * 500 * ValueScale) \div 1000
                 noise == (Half(r4) * 50) \div 4
             IN  SparsePoints(j + 1, nPoints, t,
                              [rng |-> r4, y |-> Append(st.y, val + noise),
                               x |-> Append(st.x, t)]))

\* generateData without lines 26-27: the new series are added to the old ones
GenerateDataAppend(srv, type) ==
    LET n == srv.nPoints
        base == [srv EXCEPT !.rng = RngSeed]
        done == CASE type = "random-walk" ->
                     LET w == WalkSeries(0, srv.nSeries, n, [rng |-> RngSeed, data |-> <<>>])
                     IN  [base EXCEPT !.data = @ \o w.data, !.rng = w.rng]
                  [] type = "variable-sine" ->
                     LET w == SineSegments(0, n \div 10, n,
                                           [rng |-> RngSeed, series |-> Zeros(n)])
                     IN  [base EXCEPT !.nSeries = 1, !.data = @ \o <<w.series>>, !.rng = w.rng]
                  [] type = "pulse-wave" ->
                     LET w == PulseRegions(0, n \div 20, n,
                                           [rng |-> RngSeed, series |-> Zeros(n)])
                     IN  [base EXCEPT !.nSeries = 1, !.data = @ \o <<w.series>>, !.rng = w.rng]
                  [] type = "multi-wave" ->
                     LET w == WaveSeries(0, 20, n, [rng |-> RngSeed, data |-> <<>>])
                     IN  [base EXCEPT !.nSeries = 20, !.data = @ \o w.data, !.rng = w.rng]
                  [] type = "sparse-sine" ->
                     LET w == SparsePoints(0, n, 0,
                                           [rng |-> RngSeed, y |-> <<>>, x |-> <<>>])
                     IN  [base EXCEPT !.nSeries = 1, !.data = @ \o <<w.y>>,
                                      !.dataX = @ \o <<w.x>>, !.rng = w.rng]
                  [] OTHER -> base
    IN  [done EXCEPT !.totalPoints = done.nSeries * done.nPoints]

\* generateData without line 30: the stream goes on from where the last
\* generation left it
GenerateDataUnseeded(srv, type) ==
    LET n == srv.nPoints
        base == [srv EXCEPT !.data = <<>>, !.dataX = <<>>]
        done == CASE type = "random-walk" ->
                     LET w == WalkSeries(0, srv.nSeries, n, [rng |-> srv.rng, data |-> <<>>])
                     IN  [base EXCEPT !.data = w.data, !.rng = w.rng]
                  [] type = "variable-sine" ->
                     LET w == SineSegments(0, n \div 10, n,
                                           [rng |-> srv.rng, series |-> Zeros(n)])
                     IN  [base EXCEPT !.nSeries = 1, !.data = <<w.series>>, !.rng = w.rng]
                  [] type = "pulse-wave" ->
                     LET w == PulseRegions(0, n \div 20, n,
                                           [rng |-> srv.rng, series |-> Zeros(n)])
                     IN  [base EXCEPT !.nSeries = 1, !.data = <<w.series>>, !.rng = w.rng]
                  [] type = "multi-wave" ->
                     LET w == WaveSeries(0, 20, n, [rng |-> srv.rng, data |-> <<>>])
                     IN  [base EXCEPT !.nSeries = 20, !.data = w.data, !.rng = w.rng]
                  [] type = "sparse-sine" ->
                     LET w == SparsePoints(0, n, 0,
                                           [rng |-> srv.rng, y |-> <<>>, x |-> <<>>])
                     IN  [base EXCEPT !.nSeries = 1, !.data = <<w.y>>, !.dataX = <<w.x>>,
                                      !.rng = w.rng]
                  [] OTHER -> base
    IN  [done EXCEPT !.totalPoints = done.nSeries * done.nPoints]

\* generateData, lines 24-186
GenerateData(srv, type) ==
    LET n == srv.nPoints
        base == [srv EXCEPT !.data = <<>>, !.dataX = <<>>, !.rng = RngSeed]
        done == CASE type = "random-walk" ->
                     LET w == WalkSeries(0, srv.nSeries, n, [rng |-> RngSeed, data |-> <<>>])
                     IN  [base EXCEPT !.data = w.data, !.rng = w.rng]
                  [] type = "variable-sine" ->
                     LET w == SineSegments(0, n \div 10, n,
                                           [rng |-> RngSeed, series |-> Zeros(n)])
                     IN  [base EXCEPT !.nSeries = 1, !.data = <<w.series>>, !.rng = w.rng]
                  [] type = "pulse-wave" ->
                     LET w == PulseRegions(0, n \div 20, n,
                                           [rng |-> RngSeed, series |-> Zeros(n)])
                     IN  [base EXCEPT !.nSeries = 1, !.data = <<w.series>>, !.rng = w.rng]
                  [] type = "multi-wave" ->
                     LET w == WaveSeries(0, 20, n, [rng |-> RngSeed, data |-> <<>>])
                     IN  [base EXCEPT !.nSeries = 20, !.data = w.data, !.rng = w.rng]
                  [] type = "sparse-sine" ->
                     LET w == SparsePoints(0, n, 0,
                                           [rng |-> RngSeed, y |-> <<>>, x |-> <<>>])
                     IN  [base EXCEPT !.nSeries = 1, !.data = <<w.y>>, !.dataX = <<w.x>>,
                                      !.rng = w.rng]
                  [] OTHER -> base
    IN  [done EXCEPT !.totalPoints = done.nSeries * done.nPoints]

\* the SeriesSet of an engine: its values and timestamps
SeriesSet(srv) == [data |-> srv.data, dataX |-> srv.dataX]

(***************************************************************************)
(* MockServer.js: range queries.                                           *)
(*                                                                         *)
(* Every number handed to getData (startIndex, endIndex, lodLevel,         *)
(* sampleRate) is a multiple of 1 / TimeScale and is held as that integer  *)
(* numerator, like the timestamps; N(k) is the number k.  Indices, chunk   *)
(* sizes and bin counts are plain integers.  A request ends in one of      *)
(* three ways: its promise is resolved with a result; the timer callback   *)
(* throws (a TypeError on a series that is not there), which leaves the    *)
(* promise pending for ever; or the callback never returns.                *)
(***************************************************************************)
N(k) == k * TimeScale
Floor(x) == x \div TimeScale
Ceil(x) == -((-x) \div TimeScale)
Max(a, b) == IF a > b THEN a ELSE b
Min(a, b) == IF a < b THEN a ELSE b

\* Infinity and -Infinity, lines 275-278 and 355-356
PosInf == 2000000000
NegInf == -2000000000

Resolved(result) == [kind |-> "resolved", result |-> result]
Threw == [kind |-> "threw"]
Hung == [kind |-> "hung"]

\* TypedArray.prototype.slice(begin, end) on a 0-based array
Slice(arr, begin, end) ==
    LET len == Len(arr)
        k == IF begin < 0 THEN Max(len + begin, 0) ELSE Min(begin, len)
        final == IF end < 0 THEN Max(len + end, 0) ELSE Min(end, len)
    IN  IF final > k THEN SubSeq(arr, k + 1, final) ELSE <<>>

\* _binarySearch, lines 198-206; l and r are 0-based
RECURSIVE BinarySearchLoop(_, _, _, _)
BinarySearchLoop(arr, target, l, r) ==
    IF l > r THEN l
    ELSE LET m == (l + r) \div 2
         IN  IF arr[m + 1] < target
             THEN BinarySearchLoop(arr, target, m + 1, r)
             ELSE BinarySearchLoop(arr, target, l, m - 1)

\* _binarySearch returning the index after the split point
BinarySearchNext(arr, target) ==
    Cardinality({j \in 1..Len(arr) : arr[j] < target}) + 1

BinarySearch(arr, target) == BinarySearchLoop(arr, target, 0, Len(arr) - 1)

\* ChunkMinMax reading one index too far, raw[j..chunkEnd]
ChunkMinMaxInclusive(raw, k, chunkEnd, min, max) ==
    LET vals == {raw[j + 1] : j \in {x \in k..chunkEnd : x < Len(raw)}}
    IN  IF vals = {} THEN <<min, max>>
        ELSE <<CHOOSE v \in vals : \A w \in vals : v <= w,
               CHOOSE v \in vals : \A w \in vals : v >= w>>

\* lines 355-362: min and max of raw[j..chunkEnd-1]; raw[k] beyond the array is
\* undefined, which compares false with everything
RECURSIVE ChunkMinMax(_, _, _, _, _)
ChunkMinMax(raw, k, chunkEnd, min, max) ==
    IF k >= chunkEnd THEN <<min, max>>
    ELSE IF k >= Len(raw) THEN ChunkMinMax(raw, k + 1, chunkEnd, min, max)
    ELSE LET val == raw[k + 1]
         IN  ChunkMinMax(raw, k + 1, chunkEnd,
                         IF val < min THEN val ELSE min,
                         IF val > max THEN val ELSE max)

\* LegacyBins without the shorter last chunk: the loop stops at the last full one
RECURSIVE LegacyBinsFullChunks(_, _, _, _, _)
LegacyBinsFullChunks(raw, j, end, chunkSize, bins) ==
    IF j + chunkSize > end THEN bins
    ELSE LegacyBinsFullChunks(raw, j + chunkSize, end, chunkSize,
                              bins \o ChunkMinMax(raw, j, j + chunkSize, PosInf, NegInf))

\* lines 354-364: the bins of one series, for a chunk size that advances j
RECURSIVE LegacyBins(_, _, _, _, _)
LegacyBins(raw, j, end, chunkSize, bins) ==
    IF j >= end THEN bins
    ELSE LegacyBins(raw, j + chunkSize, end, chunkSize,
                    bins \o ChunkMinMax(raw, j, Min(end, j + chunkSize), PosInf, NegInf))

\* _processLegacyRequest, lines 325-369; startIndex and endIndex arrive as the
\* integers _processRequest clamped, on which Math.floor and Math.ceil do nothing
ProcessLegacyRequest(srv, startIndex, endIndex, lodLevel) ==
    LET start == Max(0, startIndex)
        end == Min(srv.nPoints, endIndex)
        chunkSize == Floor(lodLevel)
        missing == srv.nSeries > Len(srv.data)
    IN  IF lodLevel = N(1)
        THEN IF missing THEN Threw
             ELSE Resolved([type |-> "raw",
                            data |-> [i \in 1..srv.nSeries |-> Slice(srv.data[i], start, end)],
                            start |-> start, end |-> end])
        ELSE IF srv.nSeries <= 0 \/ start >= end
        THEN Resolved([type |-> "aggregated",
                       data |-> [i \in 1..srv.nSeries |-> <<>>],
                       start |-> start, end |-> end, step |-> chunkSize])
        \* j += chunkSize does not advance j: the loop of line 354 never ends
        ELSE IF chunkSize <= 0 THEN Hung
        \* raw[k] on a series that is not there, line 359
        ELSE IF missing THEN Threw
        ELSE Resolved([type |-> "aggregated",
                       data |-> [i \in 1..srv.nSeries |->
                                    LegacyBins(srv.data[i], start, end, chunkSize, <<>>)],
                       start |-> start, end |-> end, step |-> chunkSize])

\* lines 282-299: the scan of one bin.  acc = [ptr, min, max, hasPoints,
\* prevPointT, gapDetected]
RECURSIVE ScanBin(_, _, _, _, _, _)
ScanBin(rawX, rawY, binStartT, binEndT, sampleRate, acc) ==
    IF ~(acc.ptr < Len(rawX) /\ rawX[acc.ptr + 1] < binEndT) THEN acc
    ELSE LET t == rawX[acc.ptr + 1]
             val == rawY[acc.ptr + 1]
         IN  IF t >= binStartT
             THEN ScanBin(rawX, rawY, binStartT, binEndT, sampleRate,
                          [ptr |-> acc.ptr + 1,
                           min |-> IF val < acc.min THEN val ELSE acc.min,
                           max |-> IF val > acc.max THEN val ELSE acc.max,
                           hasPoints |-> TRUE,
                           prevPointT |-> t,
                           gapDetected |-> acc.gapDetected
                               \/ (acc.prevPointT > NegInf /\ t - acc.prevPointT > sampleRate)])
             ELSE ScanBin(rawX, rawY, binStartT, binEndT, sampleRate,
                          [acc EXCEPT !.ptr = acc.ptr + 1])

\* SparseBins with the gap test reaching back to the last sample before the bin
RECURSIVE SparseBinsCarry(_, _, _, _, _, _, _, _, _)
SparseBinsCarry(rawX, rawY, b, binCount, alignedStartTime, binSizeMs, sampleRate, currentPtr, bins) ==
    Eager(<<currentPtr, bins>>,
        IF b >= binCount THEN bins
        ELSE LET binStartT == alignedStartTime + b * binSizeMs
                 binEndT == binStartT + binSizeMs
                 acc == ScanBin(rawX, rawY, binStartT, binEndT, sampleRate,
                                [ptr |-> currentPtr, min |-> PosInf, max |-> NegInf,
                                 hasPoints |-> FALSE,
                                 prevPointT |-> IF currentPtr > 0 /\ currentPtr <= Len(rawX)
                                                THEN rawX[currentPtr] ELSE NegInf,
                                 gapDetected |-> FALSE])
                 min == IF acc.gapDetected /\ 0 < acc.min THEN 0 ELSE acc.min
                 max == IF acc.gapDetected /\ 0 > acc.max THEN 0 ELSE acc.max
             IN  SparseBinsCarry(rawX, rawY, b + 1, binCount, alignedStartTime, binSizeMs,
                                 sampleRate, acc.ptr,
                                 IF acc.hasPoints THEN bins \o <<min, max>> ELSE bins \o <<0, 0>>))

\* SparseBins without the (0, 0) pair of an empty bin
RECURSIVE SparseBinsSkipEmpty(_, _, _, _, _, _, _, _, _)
SparseBinsSkipEmpty(rawX, rawY, b, binCount, alignedStartTime, binSizeMs, sampleRate, currentPtr, bins) ==
    Eager(<<currentPtr, bins>>,
        IF b >= binCount THEN bins
        ELSE LET binStartT == alignedStartTime + b * binSizeMs
                 acc == ScanBin(rawX, rawY, binStartT, binStartT + binSizeMs, sampleRate,
                                [ptr |-> currentPtr, min |-> PosInf, max |-> NegInf,
                                 hasPoints |-> FALSE, prevPointT |-> NegInf,
                                 gapDetected |-> FALSE])
                 min == IF acc.gapDetected /\ 0 < acc.min THEN 0 ELSE acc.min
                 max == IF acc.gapDetected /\ 0 > acc.max THEN 0 ELSE acc.max
             IN  SparseBinsSkipEmpty(rawX, rawY, b + 1, binCount, alignedStartTime,
                                     binSizeMs, sampleRate, acc.ptr,
                                     IF acc.hasPoints THEN bins \o <<min, max>> ELSE bins))

\* lines 271-317: the bins of one series; currentPtr is carried from bin to bin
RECURSIVE SparseBins(_, _, _, _, _, _, _, _, _)
SparseBins(rawX, rawY, b, binCount, alignedStartTime, binSizeMs, sampleRate, currentPtr, bins) ==
    Eager(<<currentPtr, bins>>,
        IF b >= binCount THEN bins
        ELSE LET binStartT == alignedStartTime + b * binSizeMs
                 binEndT == binStartT + binSizeMs
                 acc == ScanBin(rawX, rawY, binStartT, binEndT, sampleRate,
                                [ptr |-> currentPtr, min |-> PosInf, max |-> NegInf,
                                 hasPoints |-> FALSE, prevPointT |-> NegInf,
                                 gapDetected |-> FALSE])
                 min == IF acc.gapDetected /\ 0 < acc.min THEN 0 ELSE acc.min
                 max == IF acc.gapDetected /\ 0 > acc.max THEN 0 ELSE acc.max
             IN  SparseBins(rawX, rawY, b + 1, binCount, alignedStartTime, binSizeMs,
                            sampleRate, acc.ptr,
                            IF acc.hasPoints THEN bins \o <<min, max>> ELSE bins \o <<0, 0>>))

\* _processRequest without the sparse path: every store is answered by index
ProcessRequestByIndex(srv, startArg, endArg, lodLevel, sampleRate) ==
    ProcessLegacyRequest(srv, Max(0, Floor(startArg)),
                         Min(srv.nPoints, Ceil(endArg)), lodLevel)

\* _processRequest with the bins starting at the requested start time instead of
\* the grid
ProcessRequestUnaligned(srv, startArg, endArg, lodLevel, sampleRate) ==
    IF Len(srv.dataX) = 0
    THEN ProcessLegacyRequest(srv, Max(0, Floor(startArg)),
                              Min(srv.nPoints, Ceil(endArg)), lodLevel)
    ELSE LET rawStartIndex == Max(0, BinarySearch(srv.dataX[1], startArg) - 1)
             rawEndIndex == Min(srv.nPoints, BinarySearch(srv.dataX[1], endArg) + 1)
             binCount == -((-(endArg - startArg)) \div lodLevel)
         IN  IF srv.nSeries > Len(srv.data) \/ srv.nSeries > Len(srv.dataX) THEN Threw
             ELSE IF lodLevel = N(1) \/ lodLevel < sampleRate
             THEN Resolved([type |-> "sparse",
                            data |-> [i \in 1..srv.nSeries |->
                                Slice(srv.data[i], rawStartIndex, rawEndIndex)],
                            x |-> [i \in 1..srv.nSeries |->
                                Slice(srv.dataX[i], rawStartIndex, rawEndIndex)],
                            start |-> startArg, end |-> endArg,
                            sampleRate |-> sampleRate])
             ELSE Resolved([type |-> "sparse-aggregated",
                            data |-> [i \in 1..srv.nSeries |->
                                SparseBins(srv.dataX[i], srv.data[i], 0, binCount,
                                           startArg, lodLevel, sampleRate,
                                           BinarySearch(srv.dataX[i], startArg), <<>>)],
                            start |-> startArg, end |-> endArg,
                            step |-> lodLevel, sampleRate |-> sampleRate])

\* _processRequest, lines 208-322; lines 251-321 need lodLevel > 0, which holds
\* there whenever sampleRate > 0
ProcessRequest(srv, startArg, endArg, lodLevel, sampleRate) ==
    IF Len(srv.dataX) = 0
    THEN ProcessLegacyRequest(srv, Max(0, Floor(startArg)),
                              Min(srv.nPoints, Ceil(endArg)), lodLevel)
    ELSE LET masterX == srv.dataX[1]
             startIndex == BinarySearch(masterX, startArg)
             endIndex == BinarySearch(masterX, endArg)
             rawStartIndex == Max(0, startIndex - 1)
             rawEndIndex == Min(srv.nPoints, endIndex + 1)
             missing == srv.nSeries > Len(srv.data) \/ srv.nSeries > Len(srv.dataX)
             binSizeMs == lodLevel
             alignedStartTime == (startArg \div binSizeMs) * binSizeMs
             binCount == -((-(endArg - alignedStartTime)) \div binSizeMs)
         IN  IF lodLevel = N(1) \/ lodLevel < sampleRate
             THEN IF missing THEN Threw
                  ELSE Resolved([type |-> "sparse",
                                 data |-> [i \in 1..srv.nSeries |->
                                     Slice(srv.data[i], rawStartIndex, rawEndIndex)],
                                 x |-> [i \in 1..srv.nSeries |->
                                     Slice(srv.dataX[i], rawStartIndex, rawEndIndex)],
                                 start |-> startArg, end |-> endArg,
                                 sampleRate |-> sampleRate])
             ELSE IF missing THEN Threw
             ELSE Resolved([type |-> "sparse-aggregated",
                            data |-> [i \in 1..srv.nSeries |->
                                SparseBins(srv.dataX[i], srv.data[i], 0, binCount,
                                           alignedStartTime, binSizeMs, sampleRate,
                                           BinarySearch(srv.dataX[i], alignedStartTime),
                                           <<>>)],
                            start |-> alignedStartTime, end |-> endArg,
                            step |-> binSizeMs, sampleRate |-> sampleRate])

\* generateData is an async function without an await: it runs to its end when
\* called and its promise is rejected only if a statement throws, which here is
\* new Float32Array(nPoints) with a negative length (lines 35, 46, 89, 125, 154)
GenerateSettles(srv, type) ==
    IF /\ srv.nPoints < 0
       /\ type \in Profiles
       /\ type = "random-walk" => srv.nSeries > 0
    THEN "rejected" ELSE "resolved"

(***************************************************************************)
(* Bounds and enumerated inputs of the MockServer part.                    *)
(***************************************************************************)
SmallPoints == 4
MaxPoints == 20
MaxSeries == 2
LogLen == 3

SeriesCounts == 1..MaxSeries
PointCounts == {SmallPoints, MaxPoints}
QueryPointCounts == {SmallPoints, SmallPoints + 2}
GenTypes == Profiles \cup {"bogus"}

EmptyLog == [on |-> TRUE, calls |-> <<>>]
NoLog == [on |-> FALSE, calls |-> <<>>]
NoReply == [kind |-> "none"]
\* the answer before the last one on the same store, where a run keeps it
\* and, where a run tracks it, the first answer since the last generation or
\* resize, the store it was computed on, and whether a different request was
\* answered since
NoEarlier ==
    [on |-> FALSE, reply |-> NoReply, track |-> FALSE, first |-> NoReply,
     store |-> <<>>, between |-> FALSE]
EmptyEarlier == [NoEarlier EXCEPT !.on = TRUE]
TrackEarlier == [NoEarlier EXCEPT !.track = TRUE]
LastN(seq, n) == IF Len(seq) <= n THEN seq ELSE SubSeq(seq, Len(seq) - n + 1, Len(seq))

\* the part of the state a specification leaves alone
SrvIdle ==
    /\ server = NewServer(MaxSeries, SmallPoints)
    /\ genLog = EmptyLog
    /\ timers = <<>>
    /\ reply = NoReply
    /\ earlier = NoEarlier

NoSearch == [on |-> FALSE]
NoController == [on |-> FALSE]
AppIdle == search = NoSearch /\ controller = NoController

VpIdle ==
    /\ viewport = NewViewport(4 * Grid)
    /\ vpLast = [op |-> "new", args |-> <<>>, pre |-> <<>>]
    /\ vpCalls = <<>>

VInit ==
    /\ \E t \in Totals : viewport = NewViewport(t)
    /\ vpLast = [op |-> "new", args |-> <<>>, pre |-> <<>>]
    /\ vpCalls = <<>>
    /\ SrvIdle
    /\ AppIdle

Zoom(factor, pivot) ==
    /\ ZoomRejected(viewport, factor) \/ Representable(ZoomRange(viewport, factor, pivot))
    /\ vpLast' = [op |-> "zoom", args |-> <<factor, pivot>>, pre |-> Pre(viewport)]
    /\ UNCHANGED <<srvVars, appVars>>
    /\ IF ZoomRejected(viewport, factor)
       THEN /\ viewport' = viewport
            /\ vpCalls' = <<>>
       ELSE LET r == ZoomRange(viewport, factor, pivot)
                v == [viewport EXCEPT !.start = r.start, !.end = r.end]
            IN  /\ viewport' = v
                /\ vpCalls' = Notify(v)

Pan(deltaPoints) ==
    LET r == PanRange(viewport, Q(deltaPoints))
        v == [viewport EXCEPT !.start = r.start, !.end = r.end]
    IN  /\ viewport' = v
        /\ vpCalls' = Notify(v)
        /\ vpLast' = [op |-> "pan", args |-> <<Q(deltaPoints)>>, pre |-> Pre(viewport)]
        /\ UNCHANGED <<srvVars, appVars>>

\* onChange, line 58; the k-th observer registered is Callbacks[k]
OnChange(callback) ==
    /\ Len(viewport.listeners) < MaxListeners
    /\ Len(viewport.listeners) < Len(Callbacks)
    /\ callback = Callbacks[Len(viewport.listeners) + 1]
    /\ viewport' = [viewport EXCEPT !.listeners = Append(@, callback)]
    /\ vpCalls' = <<>>
    /\ vpLast' = [op |-> "onChange", args |-> <<callback>>, pre |-> Pre(viewport)]
    /\ UNCHANGED <<srvVars, appVars>>

\* getRange, lines 65-67: reads the range, calls nobody
CallGetRange ==
    /\ viewport' = viewport
    /\ vpCalls' = <<>>
    /\ vpLast' = [op |-> "getRange", args |-> <<GetRange(viewport)>>, pre |-> Pre(viewport)]
    /\ UNCHANGED <<srvVars, appVars>>

VResize(totalPoints) ==
    /\ viewport' = [viewport EXCEPT !.totalPoints = Q(totalPoints),
                                    !.max = Q(totalPoints)]
    /\ vpCalls' = <<>>
    /\ vpLast' = [op |-> "resize", args |-> <<Q(totalPoints)>>, pre |-> Pre(viewport)]
    /\ UNCHANGED <<srvVars, appVars>>

SetRange(start, end) ==
    LET r == SetRangeRange(viewport, Q(start), Q(end))
        v == [viewport EXCEPT !.start = r.start, !.end = r.end]
    IN  /\ viewport' = v
        /\ vpCalls' = Notify(v)
        /\ vpLast' = [op |-> "setRange", args |-> <<Q(start), Q(end)>>,
                      pre |-> Pre(viewport)]
        /\ UNCHANGED <<srvVars, appVars>>

VNext ==
    \/ \E f \in Factors, p \in Pivots : Zoom(f, p)
    \/ \E d \in Deltas : Pan(d)
    \/ \E i \in 1..Len(Callbacks) : OnChange(Callbacks[i])
    \/ \E t \in Totals : VResize(t)
    \/ CallGetRange
    \/ \E s \in SetStarts, e \in SetEnds : SetRange(s, e)

SpecViewport == VInit /\ [][VNext]_vars

(***************************************************************************)
(* Navigation alone: a fresh Viewport of at least MinRange points that is  *)
(* only zoomed and panned.                                                 *)
(***************************************************************************)
NavTotals == {t \in Totals : t >= MinRange} \cup {MinRange}

NInit ==
    /\ \E t \in NavTotals : viewport = NewViewport(t)
    /\ vpLast = [op |-> "new", args |-> <<>>, pre |-> <<>>]
    /\ vpCalls = <<>>
    /\ SrvIdle
    /\ AppIdle

NNext ==
    \/ \E f \in Factors, p \in Pivots : Zoom(f, p)
    \/ \E d \in Deltas : Pan(d)

SpecNavigate == NInit /\ [][NNext]_vars

(***************************************************************************)
(* One caller that keeps zooming in at the centre, zoom(0.1, 0.5), from a  *)
(* range inside the domain that is at least ZoomGrid wide.                 *)
(***************************************************************************)
ZoomInFactor == <<1, 10>>
ZoomInPivot == <<1, 2>>
ZoomGrid == 2 * MinRange * MinRange
ZoomMarks == {i * ZoomGrid : i \in 0..MinRange}

ZInit ==
    /\ \E s \in ZoomMarks, e \in ZoomMarks :
           /\ s < e
           /\ viewport = [NewViewport(MinRange * ZoomGrid) EXCEPT !.start = Q(s), !.end = Q(e)]
    /\ vpLast = [op |-> "new", args |-> <<>>, pre |-> <<>>]
    /\ vpCalls = <<>>
    /\ SrvIdle
    /\ AppIdle

ZNext == Zoom(ZoomInFactor, ZoomInPivot)

\* a further call would change the state: the call is accepted, or it is the
\* first rejected one (this is ENABLED <<ZNext>>_vars, computed)
ZoomCallPending ==
    \/ ~ZoomRejected(viewport, ZoomInFactor)
    \/ vpCalls # <<>>
    \/ vpLast # [op |-> "zoom", args |-> <<ZoomInFactor, ZoomInPivot>>, pre |-> Pre(viewport)]

\* the caller never stops: the next zoom is always made.  This is weak fairness
\* of ZNext, WF_vars(ZNext), with its ENABLED written out as ZoomCallPending.
ZoomKeepsCalling == []<>(~ZoomCallPending) \/ []<><<ZNext>>_vars

SpecZoomIn == ZInit /\ [][ZNext]_vars /\ ZoomKeepsCalling

(***************************************************************************)
(* The series store alone: construction, resize and generation.            *)
(***************************************************************************)
Running == reply.kind # "hung"

\* each request that waits for its timer remembers the last change of the store
\* made while it waited: "none", "resize" or the type of the generation
Crossed(waiting, change) ==
    IF waiting = <<>> THEN waiting
    ELSE [i \in 1..Len(waiting) |-> [waiting[i] EXCEPT !.crossed = change]]

GInit ==
    /\ \E n \in SeriesCounts, p \in PointCounts : server = NewServer(n, p)
    /\ genLog = EmptyLog
    /\ timers = <<>>
    /\ reply = NoReply
    /\ earlier = NoEarlier
    /\ VpIdle
    /\ AppIdle

SResize(nSeries, nPoints) ==
    /\ server' = ResizeServer(server, nSeries, nPoints)
    /\ Running
    /\ genLog' = [genLog EXCEPT !.calls = <<>>]
    /\ reply' = NoReply
    /\ earlier' = [earlier EXCEPT !.reply = NoReply, !.first = NoReply,
                                  !.store = <<>>, !.between = FALSE]
    /\ timers' = Crossed(timers, "resize")
    /\ UNCHANGED <<vpVars, appVars>>

Generate(type) ==
    /\ Running
    /\ server' = GenerateData(server, type)
    /\ genLog' = IF ~genLog.on THEN genLog
                  ELSE [genLog EXCEPT !.calls = LastN(Append(@,
                            [type |-> type, nSeries |-> server.nSeries,
                             nPoints |-> server.nPoints,
                             settled |-> GenerateSettles(server, type),
                             after |-> SeriesSet(server')]), LogLen)]
    /\ reply' = NoReply
    /\ earlier' = [earlier EXCEPT !.reply = NoReply, !.first = NoReply,
                                  !.store = <<>>, !.between = FALSE]
    /\ timers' = Crossed(timers, type)
    /\ UNCHANGED <<vpVars, appVars>>

GNext ==
    \/ \E n \in SeriesCounts, p \in PointCounts : SResize(n, p)
    \/ \E t \in GenTypes : Generate(t)

SpecGen == GInit /\ [][GNext]_vars

(***************************************************************************)
(* The engine with its queries: getData arms a timer of `latency` ms for   *)
(* each request; equal delays fire in the order they were armed.  A        *)
(* callback that never returns blocks the one JavaScript thread, so        *)
(* nothing else runs after it.                                             *)
(***************************************************************************)
MaxTimers == 1

\* <<startIndex, endIndex, lodLevel, sampleRate>>, in units of N(1) / 2
Requests ==
    {<<0, 8, 2, 200>>, <<0, 8, 4, 200>>, <<0, 8, 0, 200>>, <<-10, 60, 6, 200>>,
     <<3, 3, 2, 200>>, <<0, 8, 3, 200>>, <<4, 4, 2, 200>>, <<4, 4, 4, 200>>, <<0, -4, 2, 200>>,
     <<6, 2, -2, 200>>, <<0, 80, 2, 200>>, <<30, 80, 2, 200>>, <<30, 30, 2, 200>>, <<30, 30, 200, 200>>,
     <<0, 8000, 2000, 200>>, <<0, 200, 40, 10>>, <<5720, 5840, 40, 10>>,
     <<-100, 300, 200, 200>>, <<4000, 0, 2000, 200>>, <<0, 80, 0, 200>>}

Request(q) ==
    [startIndex |-> q[1] * (TimeScale \div 2), endIndex |-> q[2] * (TimeScale \div 2),
     lodLevel |-> q[3] * (TimeScale \div 2), sampleRate |-> q[4] * (TimeScale \div 2)]

QInit ==
    /\ \E n \in SeriesCounts, p \in QueryPointCounts : server = NewServer(n, p)
    /\ genLog = NoLog
    /\ timers = <<>>
    /\ reply = NoReply
    /\ earlier = NoEarlier
    /\ VpIdle
    /\ AppIdle

\* getData, lines 189-195: the request waits for its timer
GetData(req) ==
    /\ Running
    /\ Len(timers) < MaxTimers
    /\ timers' = Append(timers, [req |-> req, crossed |-> "none"])
    /\ reply' = NoReply
    /\ earlier' = IF earlier.on /\ reply # NoReply
                  THEN [earlier EXCEPT !.reply = reply] ELSE earlier
    /\ UNCHANGED <<server, genLog, vpVars, appVars>>

\* a callback that turns the latency off once it has answered
AfterRequestNoLatency(srv) == [srv EXCEPT !.latency = 0]

\* what answering a request leaves of the engine: _processRequest and
\* _processLegacyRequest assign no field and write into no stored array
AfterRequest(srv) == srv

\* the history of answers, after the answer `new` computed on the store `srv`
Remember(old, last, new, srv) ==
    LET kept == IF old.on /\ last # NoReply THEN [old EXCEPT !.reply = last] ELSE old
    IN  IF ~old.track THEN kept
        ELSE IF old.first = NoReply
             THEN [kept EXCEPT !.first = new, !.store = srv]
             ELSE [kept EXCEPT !.between = @ \/ new.req # old.first.req]

\* the timer callback of lines 191-193, for the oldest request
Fire ==
    /\ Running
    /\ timers # <<>>
    /\ LET req == Head(timers).req
           out == ProcessRequest(server, req.startIndex, req.endIndex,
                                 req.lodLevel, req.sampleRate)
           new == [kind |-> out.kind, req |-> req, crossed |-> Head(timers).crossed,
                   result |-> IF out.kind = "resolved" THEN out.result ELSE <<>>]
       IN  /\ reply' = new
           /\ earlier' = Remember(earlier, reply, new, server)
    /\ server' = AfterRequest(server)
    /\ timers' = Tail(timers)
    /\ UNCHANGED <<genLog, vpVars, appVars>>

QNext ==
    \/ \E n \in SeriesCounts, p \in QueryPointCounts : SResize(n, p)
    \/ \E t \in GenTypes : Generate(t)
    \/ \E q \in Requests : GetData(Request(q))
    \/ Fire

SpecQuery == QInit /\ [][QNext]_vars



(***************************************************************************)
(* Pairs of queries on one generated store: the answer before the last one *)
(* is kept until the next generation.                                      *)
(***************************************************************************)
\* <<startIndex, endIndex, lodLevel, sampleRate>>, in units of N(1) / 2
PairRequests ==
    {<<0, 200, 40, 10>>, <<2, 200, 40, 10>>, <<40, 200, 40, 10>>, <<42, 240, 40, 10>>,
     <<5720, 5840, 40, 10>>, <<5722, 5840, 40, 10>>,
     <<0, 8000, 2000, 200>>, <<2, 8000, 2000, 200>>, <<-2, 6000, 2000, 200>>,
     <<0, 8, 4, 200>>, <<2, 8, 4, 200>>, <<0, 80, 2, 200>>}

PInit ==
    /\ \E n \in SeriesCounts, p \in QueryPointCounts : server = NewServer(n, p)
    /\ genLog = NoLog
    /\ timers = <<>>
    /\ reply = NoReply
    /\ earlier = EmptyEarlier
    /\ VpIdle
    /\ AppIdle

PNext ==
    \/ \E t \in Profiles : Generate(t)
    \/ \E q \in PairRequests : GetData(Request(q))
    \/ Fire

SpecPairs == PInit /\ [][PNext]_vars


(***************************************************************************)
(* Repeated queries on one store: the first answer since the last          *)
(* generation is kept, with the store it was computed on.                  *)
(***************************************************************************)
\* <<startIndex, endIndex, lodLevel, sampleRate>>, in units of N(1) / 2
IdemRequests ==
    {<<0, 8, 2, 200>>, <<0, 8, 4, 200>>, <<0, 80, 2, 200>>, <<0, 200, 40, 10>>,
     <<0, -4, 2, 200>>}
IdemTypes == {"random-walk", "sparse-sine"}

IInit ==
    /\ \E n \in SeriesCounts, p \in QueryPointCounts : server = NewServer(n, p)
    /\ genLog = NoLog
    /\ timers = <<>>
    /\ reply = NoReply
    /\ earlier = TrackEarlier
    /\ VpIdle
    /\ AppIdle

INext ==
    \/ \E t \in IdemTypes : Generate(t)
    \/ \E q \in IdemRequests : GetData(Request(q))
    \/ Fire

SpecIdem == IInit /\ [][INext]_vars

(***************************************************************************)
(* _binarySearch alone, on every non-decreasing array of up to SearchLen   *)
(* timestamps out of 0..SearchMax and every target around them.            *)
(***************************************************************************)
SearchLen == 4
SearchMax == 3
SearchArrays ==
    UNION {{a \in [1..n -> 0..SearchMax] : \A j \in 1..(n - 1) : a[j] <= a[j + 1]} :
               n \in 0..SearchLen}
SearchTargets == (-1)..(SearchMax + 1)

BInit ==
    /\ \E a \in SearchArrays, t \in SearchTargets :
           search = [on |-> TRUE, arr |-> a, target |-> t, returned |-> FALSE, l |-> 0]
    /\ controller = NoController
    /\ VpIdle
    /\ SrvIdle

\* the call returns
CallBinarySearch ==
    /\ search.on /\ ~search.returned
    /\ search' = [search EXCEPT !.returned = TRUE,
                                !.l = BinarySearch(search.arr, search.target)]
    /\ UNCHANGED <<vpVars, srvVars, controller>>

BNext == CallBinarySearch

SpecSearch == BInit /\ [][BNext]_vars

(***************************************************************************)
(* vite.config.js: the page controller.  Every event handler runs to its   *)
(* end as one task; requestData runs up to its await inside the handler    *)
(* that called it, and its continuation (lines 202-212) is a microtask     *)
(* queued when the promise of getData is resolved by the timer callback.   *)
(* Microtasks run before the next task.  All getData timers have the same  *)
(* delay, server.latency, which nothing changes.                           *)
(***************************************************************************)
MaxIssued == 4
BinChoices == {4, 3000}
WheelFactors == Factors
WheelPivots == {<<1, 2>>}
DragDeltas == {-Grid, Grid}
Renderers == {"canvas", "three"}
Null == [id |-> 0]

\* a Viewport number as a multiple of 1 / TimeScale
ToN(q) == (q[1] * TimeScale) \div q[2]
\* Math.ceil(q / b) for a positive integer b
QCeilDiv(q, b) == -((-q[1]) \div (q[2] * b))

\* requestData, lines 191-201: the arguments handed to getData
RequestFor(v, maxBins) ==
    LET range == GetRange(v)
        lod == Max(1, QCeilDiv(range.range, maxBins))
    IN  [startIndex |-> ToN(range.start), endIndex |-> ToN(range.end),
         lodLevel |-> N(lod), sampleRate |-> N(100)]

\* requestData up to its await: the timer of getData is armed
Armed(ts, v, ctl) ==
    Append(ts, [req |-> RequestFor(v, ctl.maxBins), crossed |-> "none",
                id |-> ctl.issued + 1])
Issued(ctl, ts) ==
    [ctl EXCEPT !.issued = @ + 1, !.peak = Max(@, Len(ts) + 1)]

\* of the timers with one delay, the latest armed
Newest(ts) == Len(ts)

\* of the timers with one delay, the one that fires next: the first armed
Oldest(ts) == 1

Without(ts, k) == [j \in 1..(Len(ts) - 1) |-> IF j < k THEN ts[j] ELSE ts[j + 1]]

\* main, lines 36-495, at its end: setRenderer('canvas') and requestData() have
\* each issued a request for the whole range
CInit ==
    /\ server = GenerateData(NewServer(1, MaxPoints), "random-walk")
    /\ viewport = [NewViewport(MaxPoints) EXCEPT !.listeners = <<"render">>]
    /\ vpLast = [op |-> "onChange", args |-> <<"render">>,
                 pre |-> Pre(NewViewport(MaxPoints))]
    /\ vpCalls = <<>>
    /\ LET c0 == [on |-> TRUE, maxBins |-> 3000, activeRenderer |-> "canvas",
                  isInteracting |-> FALSE, debounceTimer |-> FALSE,
                  issued |-> 0, peak |-> 0, microtasks |-> <<>>,
                  currentDataChunk |-> Null,
                  shown |-> [r \in Renderers |-> Null], applied |-> <<>>]
           t1 == Armed(<<>>, viewport, c0)
           c1 == Issued(c0, <<>>)
       IN  /\ timers = Armed(t1, viewport, c1)
           /\ controller = Issued(c1, t1)
    /\ genLog = NoLog
    /\ reply = NoReply
    /\ earlier = NoEarlier
    /\ search = NoSearch

CanIssue == controller.on /\ controller.issued < MaxIssued

\* the wheel handler, lines 424-434
Wheel(factor, pivot) ==
    /\ controller.on
    /\ ZoomRejected(viewport, factor) \/ Representable(ZoomRange(viewport, factor, pivot))
    /\ vpLast' = [op |-> "zoom", args |-> <<factor, pivot>>, pre |-> Pre(viewport)]
    /\ IF ZoomRejected(viewport, factor)
       THEN /\ viewport' = viewport
            /\ vpCalls' = <<>>
       ELSE LET r == ZoomRange(viewport, factor, pivot)
                v == [viewport EXCEPT !.start = r.start, !.end = r.end]
            IN  /\ viewport' = v
                /\ vpCalls' = Notify(v)
    /\ controller' = [controller EXCEPT !.isInteracting = TRUE, !.debounceTimer = TRUE]
    /\ UNCHANGED <<srvVars, search>>

\* the mousemove handler while dragging, lines 452-465
MouseMove(deltaPoints) ==
    /\ controller.on
    /\ LET r == PanRange(viewport, Q(deltaPoints))
           v == [viewport EXCEPT !.start = r.start, !.end = r.end]
       IN  /\ viewport' = v
           /\ vpCalls' = Notify(v)
    /\ vpLast' = [op |-> "pan", args |-> <<Q(deltaPoints)>>, pre |-> Pre(viewport)]
    /\ controller' = [controller EXCEPT !.isInteracting = TRUE, !.debounceTimer = TRUE]
    /\ UNCHANGED <<srvVars, search>>

\* onSettle, lines 229-237, when the debounce timer of line 250 fires
OnSettle ==
    /\ CanIssue /\ controller.debounceTimer
    /\ timers' = Armed(timers, viewport, controller)
    /\ controller' = [Issued(controller, timers) EXCEPT !.isInteracting = FALSE,
                                                        !.debounceTimer = FALSE]
    /\ UNCHANGED <<vpVars, server, genLog, reply, earlier, search>>

\* setRenderer from the pane, lines 68-83 and 111-113
SetRenderer(type) ==
    /\ CanIssue
    /\ timers' = Armed(timers, viewport, controller)
    /\ controller' = [Issued(controller, timers) EXCEPT !.activeRenderer = type]
    /\ UNCHANGED <<vpVars, server, genLog, reply, earlier, search>>

\* a change of maxBins in the pane, lines 173-177
ChangeMaxBins(maxBins) ==
    /\ CanIssue /\ maxBins # controller.maxBins
    /\ LET c == [controller EXCEPT !.maxBins = maxBins]
       IN  /\ timers' = Armed(timers, viewport, c)
           /\ controller' = Issued(c, timers)
    /\ UNCHANGED <<vpVars, server, genLog, reply, earlier, search>>

\* the timer callback of getData, MockServer.js lines 191-193: the promise is
\* resolved and the continuation of requestData is queued
TimerFires ==
    /\ controller.on
    /\ timers # <<>> /\ controller.microtasks = <<>>
    /\ LET k == Oldest(timers)
           t == timers[k]
           out == ProcessRequest(server, t.req.startIndex, t.req.endIndex,
                                 t.req.lodLevel, t.req.sampleRate)
       IN  \* a callback that never returns blocks the thread
           /\ out.kind # "hung"
           /\ timers' = Without(timers, k)
           \* a callback that throws leaves its promise pending
           /\ controller' = IF out.kind # "resolved" THEN controller
                             ELSE [controller EXCEPT !.microtasks =
                                      Append(@, [id |-> t.id, req |-> t.req,
                                                 data |-> out.result])]
    /\ server' = AfterRequest(server)
    /\ UNCHANGED <<vpVars, genLog, reply, earlier, search>>

\* requestData after its await, lines 202-212
Continue ==
    /\ controller.on
    /\ controller.microtasks # <<>>
    /\ LET chunk == Head(controller.microtasks)
       IN  controller' = [controller EXCEPT
               !.microtasks = Tail(@),
               !.currentDataChunk = chunk,
               !.shown = IF controller.activeRenderer \in Renderers
                         THEN [@ EXCEPT ![controller.activeRenderer] = chunk] ELSE @,
               !.applied = Append(@, chunk.id)]
    /\ UNCHANGED <<vpVars, srvVars, search>>

CNext ==
    \/ \E f \in WheelFactors, p \in WheelPivots : Wheel(f, p)
    \/ \E d \in DragDeltas : MouseMove(d)
    \/ OnSettle
    \/ \E r \in Renderers : SetRenderer(r)
    \/ \E b \in BinChoices : ChangeMaxBins(b)
    \/ TimerFires
    \/ Continue

SpecController == CInit /\ [][CNext]_vars

(***************************************************************************)
(* Claims about the Viewport, checked under SpecViewport.                  *)
(***************************************************************************)
Width(r) == QSub(r.end, r.start)
InDomain(r) == QLe(Q(0), r.start) /\ QLt(r.start, r.end) /\ QLe(r.end, r.totalPoints)
LastIs(op) == vpLast.op = op
\* the width an accepted zoom asks for, and whether zoom's two checks reject it
AskedWidth == QMul(Width(vpLast.pre), vpLast.args[1])
AskedTooNarrow == QLt(AskedWidth, Q(MinRange))
AskedTooWide == QLt(vpLast.pre.totalPoints, AskedWidth)

\* C1: in every reachable state of a Viewport, 0 <= start < end <= totalPoints.
C1_RangeInDomain == InDomain(viewport)

\* C2: after an accepted zoom from a range inside the domain, the visible width
\* is the old width times factor (the window is slid, never shrunk).
C2_ZoomScalesWidth ==
    (LastIs("zoom") /\ InDomain(vpLast.pre) /\ ~AskedTooNarrow /\ ~AskedTooWide)
        => Width(viewport) = AskedWidth

\* C3: after setRange(s, e), start and end both lie in [0, totalPoints].
C3_SetRangeClamped ==
    LastIs("setRange") =>
        /\ QLe(Q(0), viewport.start) /\ QLe(viewport.start, viewport.totalPoints)
        /\ QLe(Q(0), viewport.end) /\ QLe(viewport.end, viewport.totalPoints)

\* C4: pan(delta) from a range inside the domain preserves the width and stays
\* inside the domain: both ends shift by delta when that stays inside, otherwise
\* the window slides to touch the edge that would be crossed.
C4_PanPreservesWidth ==
    (LastIs("pan") /\ InDomain(vpLast.pre)) =>
        LET pre == vpLast.pre
            s == QAdd(pre.start, vpLast.args[1])
            e == QAdd(pre.end, vpLast.args[1])
        IN  /\ Width(viewport) = Width(pre)
            /\ InDomain(viewport)
            /\ viewport.totalPoints = pre.totalPoints
            /\ IF QLt(s, Q(0)) THEN viewport.start = Q(0)
               ELSE IF QLt(pre.totalPoints, e) THEN viewport.end = pre.totalPoints
               ELSE viewport.start = s /\ viewport.end = e

\* a pan that would cross the right edge, from a window that did not touch it
C4_Witness ==
    /\ LastIs("pan") /\ InDomain(vpLast.pre)
    /\ QLt(vpLast.pre.end, vpLast.pre.totalPoints)
    /\ QLt(vpLast.pre.totalPoints, QAdd(vpLast.pre.end, vpLast.args[1]))
    /\ viewport.end = viewport.totalPoints
    /\ QLt(Q(0), viewport.start)

\* C5: a zoom whose resulting width is below 10 or above totalPoints changes
\* neither start, end nor totalPoints and invokes no observer.
C5_RejectedZoomNoOp ==
    (LastIs("zoom") /\ (AskedTooNarrow \/ AskedTooWide)) =>
        /\ Pre(viewport) = vpLast.pre
        /\ vpCalls = <<>>

\* a rejected zoom-in on a viewport that has observers registered
C5_Witness ==
    /\ LastIs("zoom") /\ InDomain(vpLast.pre)
    /\ Width(vpLast.pre) = Q(MinRange)
    /\ AskedTooNarrow
    /\ Len(viewport.listeners) > 0
    /\ vpCalls = <<>>

(***************************************************************************)
(* Claims about generation, checked under SpecGen.                         *)
(***************************************************************************)
Calls == genLog.calls

\* C7: generateData(P); generateData(Q); generateData(P) on one engine leaves the
\* SeriesSet that the first generateData(P) left, for any profiles P and Q.
C7_SwitchBackReproduces ==
    \A i \in 1..Len(Calls) :
        (/\ i + 2 <= Len(Calls)
         /\ Calls[i].type \in Profiles /\ Calls[i + 1].type \in Profiles
         /\ Calls[i + 2].type = Calls[i].type)
            => Calls[i + 2].after = Calls[i].after

\* C9: generateData with an unknown profile name fails with an error for the
\* caller and leaves the SeriesSet of the generation before it in place.
C9_UnknownProfileRejected ==
    \A i \in 1..Len(Calls) :
        (i >= 2 /\ Calls[i - 1].type \in Profiles /\ Calls[i].type \notin Profiles)
            => /\ Calls[i].settled = "rejected"
               /\ Calls[i].after = Calls[i - 1].after

(***************************************************************************)
(* Claims about queries, checked under SpecQuery.  reply describes the     *)
(* request whose timer has just fired; the store it ran against is the     *)
(* store of that state.                                                    *)
(***************************************************************************)
Fired == reply.kind # "none"

\* the store is as a generation left it: nSeries series of nPoints samples
Populated ==
    /\ Len(server.data) = server.nSeries
    /\ \A i \in 1..Len(server.data) : Len(server.data[i]) = server.nPoints
    /\ Len(server.dataX) \in {0, server.nSeries}

\* C6: a query with rangeEnd <= rangeStart resolves with zero-length slices or
\* zero bins for every series, in dense and in sparse mode.
C6_EmptyRangeEmptyResult ==
    (Fired /\ Populated /\ reply.req.endIndex <= reply.req.startIndex) =>
        /\ reply.kind = "resolved"
        /\ \A i \in 1..Len(reply.result.data) : reply.result.data[i] = <<>>
        /\ reply.result.type = "sparse" =>
               \A i \in 1..Len(reply.result.x) : reply.result.x[i] = <<>>

\* C8: a query with lod <= 0 is rejected with an error for the caller: it returns
\* no result and does not hang.
C8_NonPositiveLodRejected ==
    (Fired /\ Populated /\ reply.req.lodLevel <= 0) => reply.kind = "rejected"

\* C10: every request whose latency has elapsed has resolved its promise with a
\* QueryResult, whatever the arguments and the state of the engine.
C10_QueryResolves == Fired => reply.kind = "resolved"

\* the least and the greatest element of a non-empty set of numbers
Least(S) == CHOOSE v \in S : \A w \in S : v <= w
Greatest(S) == CHOOSE v \in S : \A w \in S : v >= w

Answer == reply.result
IsResult(type) == Fired /\ reply.kind = "resolved" /\ Answer.type = type
\* the number of (min, max) pairs in an interleaved bin array
Pairs(bins) == Len(bins) \div 2
\* the 0-based indices of chunk k of a dense aggregated answer
Chunk(k) ==
    {j \in 0..(server.nPoints - 1) :
        /\ Answer.start + k * Answer.step <= j
        /\ j < Min(Answer.end, Answer.start + (k + 1) * Answer.step)}

\* C11: on a generated dense store and for lod > 1, each bin (min, max) of each
\* series is the minimum and the maximum of that series' raw values over the
\* chunk [start + k*floor(lod), min(end, start + (k+1)*floor(lod))), and min <= max.
C11_BinsAreChunkMinMax ==
    (IsResult("aggregated") /\ Populated /\ reply.req.lodLevel > N(1)) =>
        /\ Answer.step = Floor(reply.req.lodLevel)
        /\ \A i \in 1..Len(Answer.data) : \A k \in 0..(Pairs(Answer.data[i]) - 1) :
               LET vals == {server.data[i][j + 1] : j \in Chunk(k)}
                   min == Answer.data[i][2 * k + 1]
                   max == Answer.data[i][2 * k + 2]
               IN  /\ vals # {}
                   /\ min = Least(vals) /\ max = Greatest(vals)
                   /\ min <= max

\* an answer with a full chunk whose values differ, followed by a shorter last chunk
C11_Witness ==
    /\ IsResult("aggregated") /\ Populated /\ reply.req.lodLevel > N(1)
    /\ Pairs(Answer.data[1]) >= 2
    /\ Answer.data[1][1] < Answer.data[1][2]
    /\ (Answer.end - Answer.start) % Answer.step # 0

\* the values of series i at the indices [floor(rangeStart), ceil(rangeEnd))
\* intersected with [0, nPoints), in order
IndexSlice(i) ==
    LET lo == Max(0, Floor(reply.req.startIndex))
        hi == Min(server.nPoints, Ceil(reply.req.endIndex))
    IN  IF hi > lo THEN SubSeq(server.data[i], lo + 1, hi) ELSE <<>>

\* C12: on a generated dense store a query with lod = 1 returns, for each of the
\* nSeries series, exactly the values at the indices [floor(rangeStart),
\* ceil(rangeEnd)) within [0, nPoints), in order; where the returned range is not
\* empty each slice has length end - start.
C12_RawIsIndexSlice ==
    (Fired /\ Populated /\ server.dataX = <<>> /\ reply.req.lodLevel = N(1)) =>
        /\ IsResult("raw")
        /\ Len(Answer.data) = server.nSeries
        /\ \A i \in 1..Len(Answer.data) :
               /\ Answer.data[i] = IndexSlice(i)
               /\ Answer.end >= Answer.start =>
                      Len(Answer.data[i]) = Answer.end - Answer.start

\* ceil(a / b) for b > 0
CeilDiv(a, b) == -((-a) \div b)

\* C13: a dense query with lod > 1 answers with kind aggregated, binWidth =
\* floor(lod) and, per series, exactly ceil((end - start) / floor(lod))
\* interleaved (min, max) pairs for the clamped range [start, end), none when it
\* is empty.
C13_BinCount ==
    (Fired /\ server.dataX = <<>> /\ reply.req.lodLevel > N(1)) =>
        /\ Populated => reply.kind = "resolved"
        /\ reply.kind = "resolved" =>
               /\ Answer.type = "aggregated"
               /\ Answer.step = Floor(reply.req.lodLevel)
               /\ Answer.start = Max(0, Floor(reply.req.startIndex))
               /\ Answer.end = Min(server.nPoints, Ceil(reply.req.endIndex))
               /\ Len(Answer.data) = server.nSeries
               /\ \A i \in 1..Len(Answer.data) :
                      Len(Answer.data[i]) =
                          IF Answer.end > Answer.start
                          THEN 2 * CeilDiv(Answer.end - Answer.start, Answer.step)
                          ELSE 0

\* two series, each with full chunks and a shorter last one
C13_Witness ==
    /\ IsResult("aggregated") /\ reply.req.lodLevel > N(1)
    /\ Len(Answer.data) = 2
    /\ Answer.step >= 2
    /\ Answer.end - Answer.start > Answer.step
    /\ (Answer.end - Answer.start) % Answer.step # 0
    /\ Len(Answer.data[2]) = 2 * CeilDiv(Answer.end - Answer.start, Answer.step)

\* C14: the kind of a result is fixed by the store mode and lod: without
\* timestamps raw when lod = 1 and aggregated otherwise; with timestamps sparseRaw
\* when lod = 1 or lod < sampleRateHint and sparseAggregated otherwise; every
\* sparse result echoes the sampleRateHint of the call.
C14_KindByModeAndLod ==
    (Fired /\ reply.kind = "resolved") =>
        LET lod == reply.req.lodLevel
            hint == reply.req.sampleRate
        IN  IF server.dataX = <<>>
            THEN Answer.type = IF lod = N(1) THEN "raw" ELSE "aggregated"
            ELSE /\ Answer.type = IF lod = N(1) \/ lod < hint THEN "sparse"
                                  ELSE "sparse-aggregated"
                 /\ Answer.sampleRate = hint

\* a sparse store answered with bins because lod is not below the hint
C14_Witness ==
    /\ IsResult("sparse-aggregated")
    /\ server.dataX # <<>>
    /\ reply.req.lodLevel >= reply.req.sampleRate
    /\ Answer.sampleRate = reply.req.sampleRate

\* a dense store answered with bins for a lod between 1 and 2
C14_WitnessDense ==
    /\ IsResult("aggregated")
    /\ N(1) < reply.req.lodLevel /\ reply.req.lodLevel < N(2)

\* the 1-based positions of series i whose timestamp satisfies Test
Stamps(i, Test(_)) == {j \in 1..Len(server.dataX[i]) : Test(server.dataX[i][j])}

\* C15: on a generated sparse store a sparseRaw result holds, for each series,
\* one run of consecutive samples that contains every sample with timestamp in
\* [rangeStart, rangeEnd] and at most one sample before rangeStart and one after
\* rangeEnd; values and timestamps are cut at the same positions.
C15_SparseRawCoversRange ==
    (IsResult("sparse") /\ Populated) =>
        /\ Len(Answer.data) = server.nSeries /\ Len(Answer.x) = server.nSeries
        /\ \A i \in 1..Len(Answer.data) :
               LET InRange(t) == reply.req.startIndex <= t /\ t <= reply.req.endIndex
                   Before(t) == t < reply.req.startIndex
                   After(t) == t > reply.req.endIndex
               IN  \E lo \in 1..(server.nPoints + 1), hi \in 0..server.nPoints :
                       /\ Answer.data[i] = SubSeq(server.data[i], lo, hi)
                       /\ Answer.x[i] = SubSeq(server.dataX[i], lo, hi)
                       /\ Len(Answer.data[i]) = Len(Answer.x[i])
                       /\ Stamps(i, InRange) \subseteq lo..hi
                       /\ Cardinality(Stamps(i, Before) \cap (lo..hi)) <= 1
                       /\ Cardinality(Stamps(i, After) \cap (lo..hi)) <= 1

\* samples inside the range, one before it, one after it and more left out
C15_Witness ==
    /\ IsResult("sparse") /\ Populated
    /\ Len(Answer.x[1]) >= 3
    /\ Answer.x[1][1] < reply.req.startIndex
    /\ Answer.x[1][Len(Answer.x[1])] > reply.req.endIndex
    /\ Len(Answer.x[1]) < server.nPoints

\* bin b of series i in a sparse aggregated answer: the positions of the samples
\* with timestamp in [start + b*step, start + (b+1)*step), whether two
\* neighbours among them are more than the hint apart, and the emitted pair
BinStamps(i, b) ==
    {j \in 1..Len(server.dataX[i]) :
        /\ Answer.start + b * Answer.step <= server.dataX[i][j]
        /\ server.dataX[i][j] < Answer.start + (b + 1) * Answer.step}
BinGap(i, b) ==
    \E j \in BinStamps(i, b) :
        /\ j + 1 \in BinStamps(i, b)
        /\ server.dataX[i][j + 1] - server.dataX[i][j] > reply.req.sampleRate
BinPair(i, b) == <<Answer.data[i][2 * b + 1], Answer.data[i][2 * b + 2]>>
BinValues(i, b) == {server.data[i][j] : j \in BinStamps(i, b)}

C17_SparseGrid ==
    IsResult("sparse-aggregated") =>
        LET lod == reply.req.lodLevel
            count == IF reply.req.endIndex > Answer.start
                     THEN CeilDiv(reply.req.endIndex - Answer.start, lod) ELSE 0
        IN  /\ Answer.step = lod
            /\ Answer.start % lod = 0
            /\ Answer.start <= reply.req.startIndex
            /\ reply.req.startIndex < Answer.start + lod
            /\ Answer.end = reply.req.endIndex
            /\ Len(Answer.data) = server.nSeries
            /\ \A i \in 1..Len(Answer.data) :
                   /\ Len(Answer.data[i]) = 2 * count
                   /\ Answer.start + count * lod >= Max(Answer.start, reply.req.endIndex)

\* a range that starts and ends off the grid, start below zero, with empty bins
C17_Witness ==
    /\ IsResult("sparse-aggregated")
    /\ Answer.start < reply.req.startIndex
    /\ reply.req.startIndex < 0
    /\ Pairs(Answer.data[1]) >= 2
    /\ Answer.start + Pairs(Answer.data[1]) * Answer.step > reply.req.endIndex
    /\ \E b \in 0..(Pairs(Answer.data[1]) - 1) : BinPair(1, b) = <<0, 0>>

(***************************************************************************)
(* Claims about two queries on one store, checked under SpecPairs.         *)
(***************************************************************************)
Before == earlier.reply
BothBinned ==
    /\ IsResult("sparse-aggregated")
    /\ Before.kind = "resolved" /\ Before.result.type = "sparse-aggregated"
    /\ Before.req.lodLevel = reply.req.lodLevel
    /\ Before.req.sampleRate = reply.req.sampleRate
    /\ Before.req.startIndex # reply.req.startIndex
\* the position in `result` of the bin that starts at k * step, 0 if it has none
BinAt(result, i, k) ==
    LET b == k - result.start \div result.step
    IN  IF 0 <= b /\ b < Pairs(result.data[i]) THEN b + 1 ELSE 0
SharedBins(i) ==
    {k \in (Answer.start \div Answer.step)..
               (Answer.start \div Answer.step + Pairs(Answer.data[i])) :
        BinAt(Answer, i, k) > 0 /\ BinAt(Before.result, i, k) > 0}
PairAt(result, i, k) ==
    <<result.data[i][2 * BinAt(result, i, k) - 1], result.data[i][2 * BinAt(result, i, k)]>>

\* C18: two sparseAggregated queries on the same SeriesSet with the same lod and
\* sampleRateHint and different rangeStart have their bin boundaries on the same
\* multiples of lod, and every bin [k*lod, (k+1)*lod) present in both answers
\* carries the same (min, max) pair in both.
C18_GridStable ==
    BothBinned =>
        /\ Answer.step = Before.result.step
        /\ Answer.start % Answer.step = 0
        /\ Before.result.start % Answer.step = 0
        /\ \A i \in 1..Len(Answer.data) : \A k \in SharedBins(i) :
               PairAt(Answer, i, k) = PairAt(Before.result, i, k)

\* two answers whose requested starts are 1 ms apart and off the grid in one of
\* them, sharing a populated bin
C18_Witness ==
    /\ BothBinned /\ Populated
    /\ reply.req.startIndex - Before.req.startIndex = N(1)
    /\ reply.req.startIndex % reply.req.lodLevel # 0
    /\ \E k \in SharedBins(1) : PairAt(Answer, 1, k) # <<0, 0>>

ZoomAccepted == LastIs("zoom") /\ ~AskedTooNarrow /\ ~AskedTooWide
Registered == Len(viewport.listeners)

\* C20: an accepted zoom, a pan and a setRange each call every registered
\* observer exactly once, in registration order, with the new start and end,
\* within the call; getRange, resize, onChange and a rejected zoom call none.
C20_ObserversNotified ==
    /\ (ZoomAccepted \/ LastIs("pan") \/ LastIs("setRange")) =>
           /\ Len(vpCalls) = Registered
           /\ \A i \in 1..Registered :
                  vpCalls[i] = <<Callbacks[i], viewport.start, viewport.end>>
    /\ (LastIs("getRange") \/ LastIs("resize") \/ LastIs("onChange")) => vpCalls = <<>>
    /\ LastIs("getRange") => Pre(viewport) = vpLast.pre

\* an accepted zoom that moved the range of a viewport with two observers
C20_Witness ==
    /\ ZoomAccepted
    /\ Registered = 2
    /\ Len(vpCalls) = 2
    /\ vpCalls[1][1] # vpCalls[2][1]
    /\ viewport.start # vpLast.pre.start

(***************************************************************************)
(* Claims about repeated zooming, checked under SpecZoomIn.                *)
(***************************************************************************)
\* the last zoom(0.1, 0.5) was rejected, left the range alone, and so will the next
ZoomInSettled ==
    /\ LastIs("zoom") /\ AskedTooNarrow
    /\ Pre(viewport) = vpLast.pre
    /\ ZoomRejected(viewport, ZoomInFactor)
WideEnough == ~QLt(Width(viewport), Q(MinRange))

\* C21: repeating zoom(0.1, 0.5) from a valid state changes the range finitely
\* often: from some call on every call is rejected and leaves the range as it
\* is, and the width is never below the minimum of 10.
C21_ZoomInSettles == []WideEnough /\ <>[]ZoomInSettled

\* a rejected call after the range was narrowed twice, to 1/100 of a first width
C21_Witness ==
    /\ LastIs("zoom") /\ AskedTooNarrow
    /\ Pre(viewport) = vpLast.pre
    /\ Width(viewport) = Q(2 * MinRange)
    /\ vpLast.args = <<ZoomInFactor, ZoomInPivot>>


(***************************************************************************)
(* The pivot of a zoom.                                                    *)
(***************************************************************************)
ZoomPivot == vpLast.args[2]
\* the domain point under the pivot before the call, and under it afterwards
PivotPointBefore == QAdd(vpLast.pre.start, QMul(Width(vpLast.pre), ZoomPivot))
PivotPointAfter == QAdd(viewport.start, QMul(Width(viewport), ZoomPivot))
\* the window the call asks for, before any clamp, lies inside the domain
AskedStart == QSub(PivotPointBefore, QMul(AskedWidth, ZoomPivot))
NoEdgeExceeded ==
    /\ QLe(Q(0), AskedStart)
    /\ QLe(QAdd(AskedStart, AskedWidth), vpLast.pre.totalPoints)

\* C22: after an accepted zoom(factor, pivot) with pivot in [0, 1] whose asked
\* window exceeds no domain edge, the domain point that was at fraction pivot of
\* the old view is at fraction pivot of the new view.
C22_PivotStaysPut ==
    (/\ ZoomAccepted
     /\ QLe(Q(0), ZoomPivot) /\ QLe(ZoomPivot, Q(1))
     /\ NoEdgeExceeded)
        => PivotPointAfter = PivotPointBefore

\* an accepted zoom-in about the right edge of the view that moved the start
C22_Witness ==
    /\ ZoomAccepted /\ NoEdgeExceeded
    /\ ZoomPivot = Q(1)
    /\ QLt(vpLast.pre.start, viewport.start)
    /\ viewport.end = vpLast.pre.end
    /\ QLt(viewport.end, viewport.totalPoints)


(***************************************************************************)
(* The visible width.                                                      *)
(***************************************************************************)
WidthInBounds(r) == QLe(Q(MinRange), Width(r)) /\ QLe(Width(r), QSub(r.max, r.min))

\* C23: in every state reached by zoom, pan, setRange and resize the visible
\* width end - start lies in [10, max - min].
C23_WidthInBounds ==
    (LastIs("zoom") \/ LastIs("pan") \/ LastIs("setRange") \/ LastIs("resize"))
        => WidthInBounds(viewport)


(***************************************************************************)
(* Determinism of generation, checked under SpecGen.                       *)
(***************************************************************************)
\* C24: two generations of the same profile on an engine with the same nSeries
\* and nPoints leave identical SeriesSets (series count, values, timestamps),
\* whatever was generated before each of them.
C24_GenerationDeterministic ==
    \A i \in 1..Len(Calls) : \A j \in 1..Len(Calls) :
        (/\ Calls[i].type \in Profiles
         /\ Calls[j].type = Calls[i].type
         /\ Calls[j].nSeries = Calls[i].nSeries
         /\ Calls[j].nPoints = Calls[i].nPoints)
            => Calls[j].after = Calls[i].after

\* random-walk, sparse-sine, random-walk on an engine of one series: the two
\* random walks follow different generations and leave the same samples
C24_Witness ==
    /\ Len(Calls) = 3
    /\ Calls[1].type = "random-walk" /\ Calls[3].type = "random-walk"
    /\ Calls[2].type = "sparse-sine"
    /\ Calls[1].nSeries = Calls[3].nSeries /\ Calls[1].nPoints = Calls[3].nPoints
    /\ Calls[1].nPoints = MaxPoints
    /\ Calls[3].after = Calls[1].after
    /\ Calls[3].after # Calls[2].after


(***************************************************************************)
(* Claims about repeated queries, checked under SpecIdem.                  *)
(***************************************************************************)
First == earlier.first
Repeated == Fired /\ First # NoReply /\ reply.req = First.req

InIndexRange(k) == 0 <= k /\ k <= server.nPoints

\* C26: a dense query with any rangeStart and rangeEnd, below 0 or above nPoints
\* included, resolves, and the start and end it returns both lie in [0, nPoints].
C26_DenseRangeClamped ==
    (Fired /\ Populated /\ server.dataX = <<>> /\ reply.req.lodLevel >= N(1)) =>
        /\ reply.kind = "resolved"
        /\ InIndexRange(Answer.start)
        /\ InIndexRange(Answer.end)


(***************************************************************************)
(* _binarySearch, checked under SpecSearch.                                *)
(***************************************************************************)
\* C27: _binarySearch(arr, target) on a non-decreasing array, empty or with
\* duplicates, returns the leftmost insertion point l, 0 <= l <= arr.length:
\* every element before l is < target, every element from l on is >= target.
C27_LeftmostInsertionPoint ==
    (search.on /\ search.returned) =>
        /\ 0 <= search.l /\ search.l <= Len(search.arr)
        /\ \A j \in 1..Len(search.arr) :
               IF j <= search.l THEN search.arr[j] < search.target
               ELSE search.arr[j] >= search.target

\* a target that occurs several times, after smaller and before larger elements
C27_Witness ==
    /\ search.on /\ search.returned
    /\ 0 < search.l /\ search.l + 2 < Len(search.arr)
    /\ search.arr[search.l + 1] = search.target
    /\ search.arr[search.l + 2] = search.target
    /\ search.arr[Len(search.arr)] > search.target


(***************************************************************************)
(* The store a generation leaves, checked under SpecGen.                   *)
(***************************************************************************)
LastCall == Calls[Len(Calls)]
Generated == Calls # <<>> /\ LastCall.type \in Profiles
NonDecreasing(a) == \A j \in 1..(Len(a) - 1) : a[j] <= a[j + 1]

\* C28: after a generateData call with a known profile, values holds exactly
\* nSeries series of nPoints samples each, totalPoints = nSeries * nPoints, and
\* timestamps is empty or holds one non-decreasing array per series, as long as
\* that series' values.
C28_StoreConsistent ==
    Generated =>
        /\ Len(server.data) = server.nSeries
        /\ \A i \in 1..Len(server.data) : Len(server.data[i]) = server.nPoints
        /\ server.totalPoints = server.nSeries * server.nPoints
        /\ \/ server.dataX = <<>>
           \/ /\ Len(server.dataX) = server.nSeries
              /\ \A i \in 1..Len(server.dataX) :
                     /\ Len(server.dataX[i]) = Len(server.data[i])
                     /\ NonDecreasing(server.dataX[i])

\* a sparse generation on an engine that a multi-wave generation had left with
\* twenty series
C28_Witness ==
    /\ Generated /\ Len(Calls) >= 2
    /\ LastCall.type = "sparse-sine" /\ LastCall.nSeries = 20
    /\ server.nSeries = 1 /\ server.nPoints = MaxPoints
    /\ Len(server.dataX) = 1 /\ Len(server.dataX[1]) = MaxPoints
    /\ server.totalPoints = MaxPoints


(***************************************************************************)
(* Navigation by zoom and pan only, checked under SpecNavigate.            *)
(***************************************************************************)
\* C29: from new Viewport(totalPoints) with totalPoints >= 10, after any zooms
\* (pivot in [0, 1]) and pans, 0 <= start < end <= totalPoints and
\* 10 <= end - start <= totalPoints.
C29_NavigationKeepsRange ==
    /\ InDomain(viewport)
    /\ QLe(Q(MinRange), Width(viewport))
    /\ QLe(Width(viewport), viewport.totalPoints)

\* an accepted zoom-out near the right edge, cut at the edge to less than the
\* width it asked for
C29_Witness ==
    /\ ZoomAccepted
    /\ QLt(Width(vpLast.pre), Width(viewport))
    /\ QLt(Width(viewport), AskedWidth)
    /\ viewport.end = viewport.totalPoints
    /\ QLt(Q(0), viewport.start)


(***************************************************************************)
(* The controller's overlapping requests, checked under SpecController.    *)
(***************************************************************************)
Quiet == controller.on /\ timers = <<>> /\ controller.microtasks = <<>>
Shown == controller.shown[controller.activeRenderer]

\* C30: the results of overlapping requestData calls are applied in the order
\* the requests were issued, and once every pending request has resolved,
\* currentDataChunk and the active renderer hold the result of the request
\* issued last.
C30_LatestResultShown ==
    controller.on =>
        /\ \A i \in 1..Len(controller.applied) : controller.applied[i] = i
        /\ Quiet =>
               /\ controller.currentDataChunk.id = controller.issued
               /\ Shown = controller.currentDataChunk

\* four requests of which three were pending at once, the last one for a
\* narrower range than the first, all applied
C30_Witness ==
    /\ Quiet
    /\ controller.issued = MaxIssued /\ controller.peak >= 3
    /\ controller.currentDataChunk.id = MaxIssued
    /\ controller.currentDataChunk.req.endIndex < N(MaxPoints)
    /\ controller.currentDataChunk.data.type = "aggregated"
    /\ controller.activeRenderer = "three"

=============================================================================
